---- MODULE Spec2Model ----
(***************************************************************************)
(* MediaPlayer: safe path resolution under a media root (app.py) and the   *)
(* share-link lifecycle (share_store.py and the share / revoke / public    *)
(* view handlers of app.py).                                               *)
(*                                                                         *)
(* Strings are sequences of one-character strings, so that strip and split *)
(* are computed.  A file name is such a string; an absolute path is a      *)
(* sequence of file names.                                                 *)
(***************************************************************************)
EXTENDS Integers, Sequences, FiniteSets, TLC

VARIABLES
    fs,            \* the filesystem: absolute path -> node (file, dir, link, none)
    pyLoopRaises,  \* the build: Path.resolve() raises RuntimeError on a symlink loop (Python < 3.13)
    now,           \* the UTC clock, in whole seconds
    shares,        \* the shares table, in rowid order
    issued,        \* how many tokens secrets.token_urlsafe has produced
    worker,        \* per worker: the request it is in the middle of
    revoked_true,  \* history: per token, how many revoke calls returned True
    created_with,  \* history: per token, the expiry create_share was called with
    last           \* the step just taken: operation, inputs, outcome

vars == <<fs, pyLoopRaises, now, shares, issued, worker, revoked_true, created_with, last>>

----------------------------------------------------------------------------
(* Bounds *)

MaxLen == 4        \* longest client path string, in characters
MaxClock == 2      \* the clock stops ticking here
MaxShares == 2     \* most rows the shares table gets
NumWorkers == 2    \* requests in flight at once

----------------------------------------------------------------------------
(* Strings *)

NUL == "NUL"       \* the character U+0000
SP == " "
SEP == "/"         \* os.sep

Alphabet == {"a", "d", "o", "c", "x", SEP, ".", SP, NUL}

StringsUpTo(n) == UNION {[1..k -> Alphabet] : k \in 0..n}

RECURSIVE lstrip(_)
lstrip(s) == IF s # <<>> /\ Head(s) = SP THEN lstrip(Tail(s)) ELSE s

RECURSIVE rstrip(_)
rstrip(s) == IF s # <<>> /\ s[Len(s)] = SP THEN rstrip(SubSeq(s, 1, Len(s) - 1)) ELSE s

\* str.strip()
strip(s) == rstrip(lstrip(s))

\* str.split(os.sep): the pieces between separators, empty pieces included
RECURSIVE split(_, _)
split(s, cur) ==
    IF s = <<>> THEN <<cur>>
    ELSE IF Head(s) = SEP THEN <<cur>> \o split(Tail(s), <<>>)
    ELSE split(Tail(s), Append(cur, Head(s)))

DOT == <<".">>
DOTDOT == <<".", ".">>

----------------------------------------------------------------------------
(* The filesystem *)

Root == << <<"m">> >>             \* app.config["MEDIA_ROOT"], canonical
Outside == << <<"x">> >>          \* a directory that is not under the root

NoNode == [kind |-> "none", target |-> <<>>]
FileNode == [kind |-> "file", target |-> <<>>]
DirNode == [kind |-> "dir", target |-> <<>>]
LinkNode(t) == [kind |-> "link", target |-> t]

\* root/a is a file, root/d a directory holding a file, root/o a symbolic link
\* to `linkTo`, root/c a symbolic link to itself; x lies outside the root.
MediaTree(linkTo) ==
    (Root :> DirNode)
    @@ (Append(Root, <<"a">>) :> FileNode)
    @@ (Append(Root, <<"d">>) :> DirNode)
    @@ (Root \o << <<"d">>, <<"a">> >> :> FileNode)
    @@ (Append(Root, <<"o">>) :> LinkNode(linkTo))
    @@ (Append(Root, <<"c">>) :> LinkNode(Append(Root, <<"c">>)))
    @@ (Outside :> DirNode)
    @@ (Append(Outside, <<"a">>) :> FileNode)

\* os.lstat: the node at a path, symbolic links not followed
lstat(p) == IF p \in DOMAIN fs THEN fs[p] ELSE NoNode

HasNul(name) == \E i \in 1..Len(name) : name[i] = NUL

IsPrefix(p, q) == Len(p) <= Len(q) /\ SubSeq(q, 1, Len(p)) = p

----------------------------------------------------------------------------
(* Safe path resolution: resolve_under_root *)

\* Mutant: ".." parts are dropped with the "." parts instead of being kept for
\* the traversal test.
path_parts_dropping_dotdot(relative) ==
    SelectSeq(split(strip(relative), <<>>),
              LAMBDA part : part # <<>> /\ part # DOT /\ part # DOTDOT)

\* relative.strip().split(os.sep) without the empty and "." parts
path_parts(relative) ==
    SelectSeq(split(strip(relative), <<>>), LAMBDA part : part # <<>> /\ part # DOT)

\* Path.resolve(): os.path.realpath, not strict.  Walks `rest` from `path`,
\* following symbolic links; `seen` are the links being followed.  A name that
\* does not exist is kept as it is.  os.lstat raises ValueError on an embedded
\* null character; a link met while it is being followed is a loop (ok = FALSE)
\* and the unresolved remainder is returned.
RECURSIVE joinrealpath(_, _, _)
joinrealpath(path, rest, seen) ==
    IF rest = <<>> THEN [path |-> path, ok |-> TRUE, exc |-> "none"]
    ELSE LET name == Head(rest)
             newpath == Append(path, name)
         IN  IF name = <<>> \/ name = DOT THEN joinrealpath(path, Tail(rest), seen)
             ELSE IF name = DOTDOT
                  THEN joinrealpath(IF path = <<>> THEN path ELSE SubSeq(path, 1, Len(path) - 1),
                                    Tail(rest), seen)
             ELSE IF HasNul(name) THEN [path |-> newpath, ok |-> FALSE, exc |-> "ValueError"]
             ELSE IF lstat(newpath).kind # "link" THEN joinrealpath(newpath, Tail(rest), seen)
             ELSE IF newpath \in seen
                  THEN [path |-> newpath \o Tail(rest), ok |-> FALSE, exc |-> "none"]
             ELSE LET r == joinrealpath(<<>>, lstat(newpath).target, seen \cup {newpath})
                  IN  IF r.exc # "none" THEN r
                      ELSE IF ~r.ok THEN [r EXCEPT !.path = r.path \o Tail(rest)]
                      ELSE joinrealpath(r.path, Tail(rest), seen)

Returned(p) == [kind |-> "path", path |-> p, exc |-> "none"]
ReturnedNone == [kind |-> "none", path |-> <<>>, exc |-> "none"]
Raised(e) == [kind |-> "raise", path |-> <<>>, exc |-> e]

\* candidate.resolve(): after realpath, Python < 3.13 stats the result and
\* turns a symbolic-link loop into RuntimeError; later versions return the path.
path_resolve(candidate) ==
    LET r == joinrealpath(<<>>, candidate, {})
    IN  IF r.exc # "none" THEN Raised(r.exc)
        ELSE IF r.ok THEN Returned(r.path)
        ELSE IF ~pyLoopRaises THEN Returned(r.path)
        ELSE IF \E i \in 1..Len(r.path) : HasNul(r.path[i]) THEN Raised("ValueError")
        ELSE Raised("RuntimeError")

\* Path.is_file / Path.is_dir of a resolved path
is_file(p) == lstat(p).kind = "file"
is_dir(p) == lstat(p).kind = "dir"

\* resolved == root_real or resolved.is_relative_to(root_real)
under_root(root, resolved) == IsPrefix(root, resolved)

\* Mutant: a relative that starts with the separator is taken as an absolute
\* path, as root / relative would take it
resolve_under_root_keeping_absolute(root, relative, must_be_file, must_be_dir) ==
    LET parts == path_parts(relative)
        absolute == strip(relative) # <<>> /\ Head(strip(relative)) = SEP
    IN  IF \E i \in 1..Len(parts) : parts[i] = DOTDOT THEN ReturnedNone
        ELSE LET res == path_resolve(IF absolute THEN parts ELSE root \o parts)
             IN  IF res.kind = "raise" THEN res
                 ELSE IF ~under_root(root, res.path)
                         \/ (must_be_file /\ ~is_file(res.path))
                         \/ (must_be_dir /\ ~is_dir(res.path))
                      THEN ReturnedNone
                 ELSE res

resolve_under_root(root, relative, must_be_file, must_be_dir) ==
    LET parts == path_parts(relative)
    IN  IF \E i \in 1..Len(parts) : parts[i] = DOTDOT THEN ReturnedNone
        ELSE LET res == path_resolve(root \o parts)
             IN  IF res.kind = "raise" THEN res
                 ELSE IF ~under_root(root, res.path)
                         \/ (must_be_file /\ ~is_file(res.path))
                         \/ (must_be_dir /\ ~is_dir(res.path))
                      THEN ReturnedNone
                 ELSE res

\* resolve_safe: resolve under the application's MEDIA_ROOT
resolve_safe(relative, must_be_file, must_be_dir) ==
    resolve_under_root(Root, relative, must_be_file, must_be_dir)

----------------------------------------------------------------------------
(* The share store: share_store.py *)

\* Timestamps are text.  _utcnow() writes "%Y-%m-%dT%H:%M:%SZ" (fmt "iso"),
\* SQLite's datetime() writes "YYYY-MM-DD HH:MM:SS" (fmt "sql"); sec is the
\* instant written, in whole seconds.
NULL == [fmt |-> "null", sec |-> 0]

_utcnow == [fmt |-> "iso", sec |-> now]

\* SQLite: datetime('now', '+<seconds> seconds')
sql_datetime(seconds) == [fmt |-> "sql", sec |-> now + seconds]

SecondsPerDay == 86400

\* SQLite's > on two timestamp texts: text of one format orders as time does;
\* across formats the date decides, then "T" sorts after " ".
sql_text_gt(x, y) ==
    IF x.fmt = y.fmt THEN x.sec > y.sec
    ELSE IF x.sec \div SecondsPerDay # y.sec \div SecondsPerDay THEN x.sec > y.sec
    ELSE x.fmt = "iso"

Rows == {shares[i] : i \in 1..Len(shares)}

\* get_by_token: the row with this token; the empty set is None
get_by_token(token) == {row \in Rows : row.token = token}

\* Mutant: the WHERE clause without "expires_at IS NULL OR"; a NULL expiry
\* then compares as not greater.
sql_active_without_null_expiry(row, file_path) ==
    /\ row.file_path = file_path
    /\ row.revoked_at = NULL
    /\ row.expires_at # NULL
    /\ sql_text_gt(row.expires_at, sql_datetime(0))

\* Mutant: the WHERE clause without the test of expires_at
sql_active_ignoring_expiry(row, file_path) ==
    /\ row.file_path = file_path
    /\ row.revoked_at = NULL

\* Mutant: rows are matched by the file the path resolves to, not by the
\* path string
sql_active_by_resolved_path(row, file_path) ==
    /\ resolve_safe(row.file_path, FALSE, FALSE) = resolve_safe(file_path, FALSE, FALSE)
    /\ row.revoked_at = NULL
    /\ (row.expires_at = NULL \/ sql_text_gt(row.expires_at, sql_datetime(0)))

\* Mutant: the WHERE clause without "revoked_at IS NULL"
sql_active_ignoring_revoked(row, file_path) ==
    /\ row.file_path = file_path
    /\ (row.expires_at = NULL \/ sql_text_gt(row.expires_at, sql_datetime(0)))

\* The WHERE clause of get_active_by_file_path
sql_active(row, file_path) ==
    /\ row.file_path = file_path
    /\ row.revoked_at = NULL
    /\ (row.expires_at = NULL \/ sql_text_gt(row.expires_at, sql_datetime(0)))

\* get_active_by_file_path: ORDER BY created_at DESC LIMIT 1.  Among rows with
\* equal created_at SQL leaves the choice open: the result is any member of the
\* set; the empty set is None.
get_active_by_file_path(file_path) ==
    {row \in Rows :
        /\ sql_active(row, file_path)
        /\ \A other \in Rows :
              sql_active(other, file_path) => ~sql_text_gt(other.created_at, row.created_at)}

\* secrets.token_urlsafe(32): a token no earlier call produced
token_urlsafe == issued + 1

\* Mutant: the insert looks for an active share again and keeps the table as
\* it is when there is one.
create_share_insert_unless_active(token, file_path, created, ttl) ==
    IF get_active_by_file_path(file_path) # {} THEN shares
    ELSE Append(shares, [token |-> token,
                         file_path |-> file_path,
                         created_at |-> created,
                         expires_at |-> IF ttl.none THEN NULL ELSE sql_datetime(ttl.sec),
                         revoked_at |-> NULL])

\* Mutant: INSERT OR REPLACE keyed by file_path; a row for the path is
\* replaced by the new one.
create_share_insert_replacing(token, file_path, created, ttl) ==
    Append(SelectSeq(shares, LAMBDA row : row.file_path # file_path),
           [token |-> token,
            file_path |-> file_path,
            created_at |-> created,
            expires_at |-> IF ttl.none THEN NULL ELSE sql_datetime(ttl.sec),
            revoked_at |-> NULL])

\* create_share, the INSERT: expires_at is computed by SQLite when the row is
\* inserted, created_at was read from the Python clock before.
create_share_insert(token, file_path, created, ttl) ==
    Append(shares, [token |-> token,
                    file_path |-> file_path,
                    created_at |-> created,
                    expires_at |-> IF ttl.none THEN NULL ELSE sql_datetime(ttl.sec),
                    revoked_at |-> NULL])

\* Mutant: the UPDATE without "AND revoked_at IS NULL"
revoke_matches_by_token_only(row, token) == row.token = token

\* revoke: UPDATE shares SET revoked_at = datetime('now')
\*         WHERE token = ? AND revoked_at IS NULL
revoke_matches(row, token) == row.token = token /\ row.revoked_at = NULL

\* Mutant: the UPDATE flips revoked_at, so revoking a revoked token clears it
revoke_update_toggling(token) ==
    [i \in 1..Len(shares) |->
        IF shares[i].token # token THEN shares[i]
        ELSE IF shares[i].revoked_at = NULL
             THEN [shares[i] EXCEPT !.revoked_at = sql_datetime(0)]
        ELSE [shares[i] EXCEPT !.revoked_at = NULL]]

revoke_update(token) ==
    [i \in 1..Len(shares) |->
        IF revoke_matches(shares[i], token)
        THEN [shares[i] EXCEPT !.revoked_at = sql_datetime(0)]
        ELSE shares[i]]

\* Mutant: the count of rows with the token, updated or not
revoke_rowcount_of_token(token) ==
    Cardinality({i \in 1..Len(shares) : shares[i].token = token})

\* cur.rowcount
revoke_rowcount(token) == Cardinality({i \in 1..Len(shares) : revoke_matches(shares[i], token)})

\* datetime.fromisoformat(exp.replace("Z", "")): both formats parse
fromisoformat_ok(ts) == ts.fmt \in {"iso", "sql"}

\* Mutant: revoked_at is not looked at
is_share_active_ignoring_revoked(row) ==
    IF row = {} THEN [exc |-> "AttributeError", val |-> FALSE]
    ELSE LET r == CHOOSE r \in row : TRUE
         IN  IF r.expires_at = NULL THEN [exc |-> "none", val |-> TRUE]
             ELSE IF ~fromisoformat_ok(r.expires_at) THEN [exc |-> "none", val |-> FALSE]
             ELSE [exc |-> "none", val |-> r.expires_at.sec > now]

\* Mutant: the comparison with the clock is >= instead of >
is_share_active_until_expiry_included(row) ==
    IF row = {} THEN [exc |-> "AttributeError", val |-> FALSE]
    ELSE LET r == CHOOSE r \in row : TRUE
         IN  IF r.revoked_at # NULL THEN [exc |-> "none", val |-> FALSE]
             ELSE IF r.expires_at = NULL THEN [exc |-> "none", val |-> TRUE]
             ELSE IF ~fromisoformat_ok(r.expires_at) THEN [exc |-> "none", val |-> FALSE]
             ELSE [exc |-> "none", val |-> r.expires_at.sec >= now]

\* is_share_active(row), row a set holding the row, or empty for None.
\* row.get on None raises AttributeError.
is_share_active(row) ==
    IF row = {} THEN [exc |-> "AttributeError", val |-> FALSE]
    ELSE LET r == CHOOSE r \in row : TRUE
         IN  IF r.revoked_at # NULL THEN [exc |-> "none", val |-> FALSE]
             ELSE IF r.expires_at = NULL THEN [exc |-> "none", val |-> TRUE]
             ELSE IF ~fromisoformat_ok(r.expires_at) THEN [exc |-> "none", val |-> FALSE]
             ELSE [exc |-> "none", val |-> r.expires_at.sec > now]

----------------------------------------------------------------------------
(* Request handlers: app.py *)

SHARE_DEFAULT_EXPIRY_SECONDS == 1     \* config share_default_expiry_seconds
SecondsPerHour == 3600

Digits == {"0", "1", "2", "3", "4", "5", "6", "7", "8", "9"}
DigitValue(c) == CHOOSE n \in 0..9 : ToString(n) = c
SUP2 == "SUP2"     \* the character U+00B2, superscript two: a digit, not a decimal

\* str.isdigit()
isdigit(s) == s # <<>> /\ \A i \in 1..Len(s) : s[i] \in Digits \cup {SUP2}

\* int(s) raises ValueError on a character that is not a decimal digit
int_raises(s) == \E i \in 1..Len(s) : s[i] \notin Digits

\* int(s) of a string of digits
RECURSIVE int(_)
int(s) == IF s = <<>> THEN 0 ELSE 10 * int(SubSeq(s, 1, Len(s) - 1)) + DigitValue(s[Len(s)])

TtlNone == [none |-> TRUE, sec |-> 0, exc |-> "none"]
Ttl(seconds) == [none |-> FALSE, sec |-> seconds, exc |-> "none"]
TtlRaised(e) == [none |-> FALSE, sec |-> 0, exc |-> e]

\* share, POST: the expiry asked for
expires_seconds(expires, custom_value, custom_unit) ==
    IF expires = <<"never">> THEN TtlNone
    ELSE IF expires = <<"custom">> /\ isdigit(strip(custom_value))
         THEN IF int_raises(strip(custom_value)) THEN TtlRaised("ValueError")
              ELSE IF custom_unit = <<"days">>
              THEN Ttl(int(strip(custom_value)) * SecondsPerDay)
              ELSE Ttl(int(strip(custom_value)) * SecondsPerHour)
    ELSE Ttl(SHARE_DEFAULT_EXPIRY_SECONDS)

\* Mutant: the file is served from the record as it was shared, the path is
\* not resolved again.
view_by_token_trusting_record(token) ==
    LET row == get_by_token(token)
        active == is_share_active(row)
    IN  IF active.exc # "none" THEN 500
        ELSE IF row = {} \/ ~active.val THEN 404
        ELSE 200

\* view_by_token: the response status.  The handler prints
\* is_share_active(row) before it tests the row.
view_by_token(token) ==
    LET row == get_by_token(token)
        active == is_share_active(row)
    IN  IF active.exc # "none" THEN 500
        ELSE IF row = {} \/ ~active.val THEN 404
        ELSE LET r == CHOOSE r \in row : TRUE
                 resolved == resolve_under_root(Root, r.file_path, TRUE, FALSE)
             IN  IF resolved.kind = "raise" THEN 500
                 ELSE IF resolved.kind = "none" \/ ~is_file(resolved.path) THEN 404
                 ELSE 200

\* browse: the response status
browse(path) ==
    LET raw == strip(path)
        resolved == resolve_safe(raw, FALSE, FALSE)
    IN  IF resolved.kind = "raise" THEN 500
        ELSE IF resolved.kind = "none" THEN 403
        ELSE IF is_file(resolved.path) THEN 302
        ELSE IF ~is_dir(resolved.path) THEN 404
        ELSE 200

\* view: the response status
view(path) ==
    LET raw == strip(path)
        resolved == resolve_safe(raw, TRUE, FALSE)
    IN  IF resolved.kind = "raise" THEN 500
        ELSE IF resolved.kind = "none" THEN 403
        ELSE IF ~is_file(resolved.path) THEN 404
        ELSE 200

\* Mutant: the path is resolved without must_be_file and the is_file test
share_precheck_without_file_test(raw) ==
    IF raw = <<>> THEN 400
    ELSE LET resolved == resolve_safe(raw, FALSE, FALSE)
         IN  IF resolved.kind = "raise" THEN 500
             ELSE IF resolved.kind = "none" THEN 403
             ELSE 0

\* share, up to the store: 0 when the request goes on to the store
share_precheck(raw) ==
    IF raw = <<>> THEN 400
    ELSE LET resolved == resolve_safe(raw, TRUE, FALSE)
         IN  IF resolved.kind = "raise" THEN 500
             ELSE IF resolved.kind = "none" \/ ~is_file(resolved.path) THEN 403
             ELSE 0

----------------------------------------------------------------------------
(* Configuration: load_config and _apply_config *)

\* A config is the dict read from the YAML file: `keys` are the keys it has,
\* the other fields their values.
ConfigKeys == {"media_root", "mode", "database", "share_default_expiry_seconds"}

\* config.get("mode", "private")
config_mode(config) == IF "mode" \in config.keys THEN config.mode ELSE "private"

\* config.get("database"), as a truth value: the key is there and not empty
config_database(config) == "database" \in config.keys /\ config.database # ""

Accepted(root, mode) == [exc |-> "none", root |-> root, mode |-> mode]
Rejected(e) == [exc |-> e, root |-> <<>>, mode |-> ""]

\* Path.exists(): the path, links followed, is a file or a directory
exists(p) == lstat(p).kind \in {"file", "dir"}

\* load_config: the file must hold a media_root
load_config(config) ==
    IF "media_root" \notin config.keys THEN Rejected("ValueError") ELSE Accepted(<<>>, "")

\* Mutant: the rule on share_default_expiry_seconds is left out
_apply_config_without_expiry_rule(config) ==
    LET mode == config_mode(config)
        root == path_resolve(config.media_root)
    IN  IF mode \notin {"private", "public"} THEN Rejected("ValueError")
        ELSE IF root.kind = "raise" THEN Rejected(root.exc)
        ELSE IF ~exists(root.path) THEN Rejected("FileNotFoundError")
        ELSE IF ~is_dir(root.path) THEN Rejected("NotADirectoryError")
        ELSE IF mode = "public" /\ ~config_database(config) THEN Rejected("ValueError")
        ELSE Accepted(root.path, mode)

\* _apply_config: validate the config and return (MEDIA_ROOT, MODE)
_apply_config(config) ==
    LET mode == config_mode(config)
        root == path_resolve(config.media_root)
    IN  IF mode \notin {"private", "public"} THEN Rejected("ValueError")
        ELSE IF root.kind = "raise" THEN Rejected(root.exc)
        ELSE IF ~exists(root.path) THEN Rejected("FileNotFoundError")
        ELSE IF ~is_dir(root.path) THEN Rejected("NotADirectoryError")
        ELSE IF mode = "public" /\ ~config_database(config) THEN Rejected("ValueError")
        ELSE IF /\ mode = "private"
                /\ config_database(config)
                /\ "share_default_expiry_seconds" \notin config.keys
             THEN Rejected("ValueError")
        ELSE Accepted(root.path, mode)

\* Module start-up: _CONFIG = load_config(...), then _apply_config(_CONFIG)
startup(config) ==
    IF load_config(config).exc # "none" THEN load_config(config) ELSE _apply_config(config)

----------------------------------------------------------------------------
(* State machine *)

Workers == 1..NumWorkers
TokenArgs == 0..MaxShares         \* tokens a client may send; 0 is never issued

\* The form fields of POST /share: expires, custom_value, custom_unit
Form(expires, custom_value, custom_unit) ==
    [expires |-> expires, custom_value |-> custom_value, custom_unit |-> custom_unit]

NoForm == Form(<<>>, <<>>, <<>>)

Idle == [pc |-> "idle", path |-> <<>>, form |-> NoForm, ttl |-> TtlNone, token |-> 0,
         created |-> NULL, raced |-> FALSE]
Off == [Idle EXCEPT !.pc = "off"]

\* What a token's row is when a call runs
TokenState(token) ==
    IF \A row \in Rows : row.token # token THEN "absent"
    ELSE LET row == CHOOSE row \in Rows : row.token = token
         IN  IF row.revoked_at # NULL THEN "revoked"
             ELSE IF row.expires_at # NULL /\ row.expires_at.sec <= now THEN "expired"
             ELSE "active"

\* The rows for a path string that are neither revoked nor expired
ActiveRows(file_path) ==
    {row \in Rows : row.file_path = file_path /\ TokenState(row.token) = "active"}

ClientPaths == {<<"a">>, <<".", "/", "a">>, <<"d">>, <<>>}
PostForms ==
    {Form(<<"never">>, <<>>, <<"hours">>),
     Form(<<"default">>, <<>>, <<"hours">>),
     Form(<<"custom">>, <<>>, <<"hours">>),
     Form(<<"custom">>, <<"x">>, <<"days">>),
     Form(<<"custom">>, <<"0">>, <<"hours">>),
     Form(<<"custom">>, <<"0">>, <<"days">>),
     Form(<<"custom">>, <<"-", "1">>, <<"hours">>),
     Form(<<"custom">>, <<SUP2>>, <<"hours">>),
     Form(<<"custom">>, <<"1">>, <<"hours">>)}

\* The clock moves on
Tick ==
    /\ now < MaxClock
    /\ now' = now + 1
    /\ last' = [op |-> "tick"]
    /\ UNCHANGED <<fs, pyLoopRaises, shares, issued, worker, revoked_true, created_with>>

\* GET /v/<token>.  `after` is the status a view of this token got right
\* before the filesystem changed, when that is what the step before was.
ViewByToken(token) ==
    /\ last' = [op |-> "view_by_token", token |-> token, status |-> view_by_token(token),
                pre |-> TokenState(token),
                after |-> IF last.op = "fs_change" /\ last.seen.token = token
                          THEN last.seen.status ELSE 0]
    /\ UNCHANGED <<fs, pyLoopRaises, now, shares, issued, worker, revoked_true, created_with>>

\* GET /share.  `touched` tells whether the request got as far as the store
\* (the first call of share_store is past both aborts).
ShareGet(path) ==
    LET raw == strip(path)
        early == share_precheck(raw)
        existing == get_active_by_file_path(raw)
    IN  /\ \/ /\ early # 0
              /\ last' = [op |-> "share_get", path |-> raw, status |-> early, token |-> 0,
                          touched |-> FALSE]
           \/ /\ early = 0
              /\ existing # {}
              /\ \E row \in existing :
                    last' = [op |-> "share_get", path |-> raw, status |-> 302,
                             token |-> row.token, touched |-> TRUE]
           \/ /\ early = 0
              /\ existing = {}
              /\ last' = [op |-> "share_get", path |-> raw, status |-> 200, token |-> 0,
                          touched |-> TRUE]
        /\ UNCHANGED <<fs, pyLoopRaises, now, shares, issued, worker, revoked_true, created_with>>

\* POST /share, up to and including the dedup check; when no active share is
\* found the request goes on into create_share: the token is drawn and
\* created_at is read.  `forms` are the form contents a client may post.
SharePost(w, path, forms) ==
    LET raw == strip(path)
        early == share_precheck(raw)
        existing == get_active_by_file_path(raw)
    IN  /\ worker[w].pc = "idle"
        /\ \/ /\ early # 0
              /\ last' = [op |-> "share_post", path |-> raw, status |-> early, token |-> 0,
                          inserted |-> FALSE, had_active |-> ActiveRows(raw) # {},
                          form |-> NoForm, ttl |-> TtlNone, touched |-> FALSE]
              /\ UNCHANGED <<worker, issued>>
           \/ /\ early = 0
              /\ existing # {}
              /\ \E row \in existing :
                    last' = [op |-> "share_post", path |-> raw, status |-> 302,
                             token |-> row.token, inserted |-> FALSE,
                             had_active |-> ActiveRows(raw) # {},
                             form |-> NoForm, ttl |-> TtlNone, touched |-> TRUE]
              /\ UNCHANGED <<worker, issued>>
           \/ /\ early = 0
              /\ existing = {}
              /\ \E form \in forms :
                    LET ttl == expires_seconds(form.expires, form.custom_value,
                                               form.custom_unit)
                    IN  IF ttl.exc # "none"
                        THEN /\ last' = [op |-> "share_post", path |-> raw, status |-> 500,
                                         token |-> 0, inserted |-> FALSE,
                                         had_active |-> ActiveRows(raw) # {},
                                         form |-> form, ttl |-> ttl, touched |-> TRUE]
                             /\ UNCHANGED <<worker, issued>>
                        ELSE /\ issued < MaxShares
                             /\ worker' = [worker EXCEPT ![w] =
                                              [pc |-> "insert", path |-> raw, form |-> form,
                                               ttl |-> ttl, token |-> token_urlsafe,
                                               created |-> _utcnow, raced |-> FALSE]]
                             /\ issued' = issued + 1
                             /\ last' = [op |-> "share_check", path |-> raw, touched |-> TRUE]
        /\ UNCHANGED <<fs, pyLoopRaises, now, shares, revoked_true, created_with>>

\* POST /share, the rest of create_share: the row is inserted and the request
\* redirects to the result page of the new token.
ShareInsert(w) ==
    /\ worker[w].pc = "insert"
    /\ shares' = create_share_insert(worker[w].token, worker[w].path, worker[w].created,
                                     worker[w].ttl)
    /\ worker' = [worker EXCEPT ![w] = Idle]
    /\ created_with' = [created_with EXCEPT ![worker[w].token] = worker[w].ttl]
    /\ last' = [op |-> "share_post", path |-> worker[w].path, status |-> 302,
                token |-> worker[w].token, inserted |-> TRUE,
                had_active |-> ActiveRows(worker[w].path) # {},
                form |-> worker[w].form, ttl |-> worker[w].ttl, touched |-> TRUE]
    /\ UNCHANGED <<fs, pyLoopRaises, now, issued, revoked_true>>

\* revoke(token) on worker w: the UPDATE, the commit and the return
RevokeRun(w, token) ==
    LET ret == revoke_rowcount(token) > 0
    IN  /\ shares' = revoke_update(token)
        /\ worker' = [v \in Workers |->
                        IF v = w THEN Idle
                        ELSE IF worker[v].pc = "revoke" /\ worker[v].token = token
                             THEN [worker[v] EXCEPT !.raced = TRUE]
                        ELSE worker[v]]
        /\ revoked_true' = [revoked_true EXCEPT ![token] =
                               IF ret /\ @ < 2 THEN @ + 1 ELSE @]
        /\ last' = [op |-> "revoke", token |-> token, ret |-> ret,
                    pre |-> TokenState(token), changed |-> shares' # shares,
                    raced |-> worker[w].raced \/ \E v \in Workers \ {w} :
                                 worker[v].pc = "revoke" /\ worker[v].token = token]
        /\ UNCHANGED <<fs, pyLoopRaises, now, issued, created_with>>

\* revoke(token), called and run with no other request in between
Revoke(w, token) ==
    /\ worker[w].pc = "idle"
    /\ RevokeRun(w, token)

\* revoke(token) is called
RevokeCall(w, token) ==
    /\ worker[w].pc = "idle"
    /\ worker' = [worker EXCEPT ![w] = [Idle EXCEPT !.pc = "revoke", !.token = token]]
    /\ last' = [op |-> "revoke_call", token |-> token]
    /\ UNCHANGED <<fs, pyLoopRaises, now, shares, issued, revoked_true, created_with>>

\* a called revoke(token) runs
RevokeExec(w) ==
    /\ worker[w].pc = "revoke"
    /\ RevokeRun(w, worker[w].token)

StoreInit ==
    /\ fs = MediaTree(Outside)
    /\ pyLoopRaises = TRUE
    /\ now = 0
    /\ shares = <<>>
    /\ issued = 0
    /\ revoked_true = [t \in TokenArgs |-> 0]
    /\ created_with = [t \in TokenArgs |-> TtlNone]
    /\ last = [op |-> "init"]

\* One request at a time
Init ==
    /\ StoreInit
    /\ worker = [w \in Workers |-> IF w = 1 THEN Idle ELSE Off]

\* Requests in flight on every worker
InitConcurrent ==
    /\ StoreInit
    /\ worker = [w \in Workers |-> Idle]

Next ==
    \/ Tick
    \/ \E token \in TokenArgs : ViewByToken(token)
    \/ \E path \in ClientPaths : ShareGet(path)
    \/ \E w \in Workers, path \in ClientPaths : SharePost(w, path, PostForms)
    \/ \E w \in Workers : ShareInsert(w)
    \/ \E w \in Workers, token \in TokenArgs : Revoke(w, token)

Spec == Init /\ [][Next]_vars

\* Concurrent requests: share requests for one path and revoke calls
RaceForms == {Form(<<"never">>, <<>>, <<"hours">>), Form(<<"default">>, <<>>, <<"hours">>)}

NextConcurrent ==
    \/ Tick
    \/ \E w \in Workers : SharePost(w, <<"a">>, RaceForms)
    \/ \E w \in Workers : ShareInsert(w)
    \/ \E w \in Workers, token \in TokenArgs : RevokeCall(w, token)
    \/ \E w \in Workers : RevokeExec(w)

SpecConcurrent == InitConcurrent /\ [][NextConcurrent]_vars

----------------------------------------------------------------------------
(* Path resolution on its own: one request per behaviour, its path drawn    *)
(* from every client string up to MaxLen                                   *)

ResolveCall(must_be_file, must_be_dir) ==
    /\ last.op = "request"
    /\ last' = [op |-> "resolve", raw |-> last.raw, must_be_file |-> must_be_file,
                must_be_dir |-> must_be_dir,
                res |-> resolve_under_root(Root, last.raw, must_be_file, must_be_dir)]
    /\ UNCHANGED <<fs, pyLoopRaises, now, shares, issued, worker, revoked_true, created_with>>

\* GET /?path=
Browse ==
    /\ last.op = "request"
    /\ last' = [op |-> "browse", raw |-> last.raw, status |-> browse(last.raw)]
    /\ UNCHANGED <<fs, pyLoopRaises, now, shares, issued, worker, revoked_true, created_with>>

\* GET /view?path=
View ==
    /\ last.op = "request"
    /\ last' = [op |-> "view", raw |-> last.raw, status |-> view(last.raw)]
    /\ UNCHANGED <<fs, pyLoopRaises, now, shares, issued, worker, revoked_true, created_with>>

InitPath ==
    /\ fs \in {MediaTree(Outside), MediaTree(Append(Root, <<"d">>))}
    /\ pyLoopRaises \in BOOLEAN
    /\ now = 0
    /\ shares = <<>>
    /\ issued = 0
    /\ worker = [w \in Workers |-> Off]
    /\ revoked_true = [t \in TokenArgs |-> 0]
    /\ created_with = [t \in TokenArgs |-> TtlNone]
    /\ \E raw \in StringsUpTo(MaxLen) : last = [op |-> "request", raw |-> raw]

NextPath ==
    \/ \E must_be_file \in BOOLEAN, must_be_dir \in BOOLEAN :
          ResolveCall(must_be_file, must_be_dir)
    \/ Browse
    \/ View

SpecPath == InitPath /\ [][NextPath]_vars

----------------------------------------------------------------------------
(* Shares of root/a while the media tree changes under the running server  *)

SharedFile == Append(Root, <<"a">>)

\* What may come to be at root/a: nothing, a directory, a file, a link to a
\* file outside the root, a link to a file inside the root, a link to itself
PathStates ==
    {NoNode, DirNode, FileNode, LinkNode(Append(Outside, <<"a">>)),
     LinkNode(Root \o << <<"d">>, <<"a">> >>), LinkNode(SharedFile)}

\* Somebody changes the media tree: root/a becomes `node`
FsChange(node) ==
    /\ lstat(SharedFile) # node
    /\ fs' = [fs EXCEPT ![SharedFile] = node]
    /\ last' = [op |-> "fs_change", node |-> node,
                seen |-> IF last.op = "view_by_token"
                         THEN [token |-> last.token, status |-> last.status]
                         ELSE [token |-> 0, status |-> 0]]
    /\ UNCHANGED <<pyLoopRaises, now, shares, issued, worker, revoked_true, created_with>>

NextFs ==
    \/ Tick
    \/ \E token \in TokenArgs : ViewByToken(token)
    \/ \E path \in {<<"a">>, <<".", "/", "a">>} : ShareGet(path)
    \/ \E w \in Workers, path \in {<<"a">>, <<".", "/", "a">>} : SharePost(w, path, RaceForms)
    \/ \E w \in Workers : ShareInsert(w)
    \/ \E node \in PathStates : FsChange(node)

SpecFs == Init /\ [][NextFs]_vars

----------------------------------------------------------------------------
(* Start-up on its own: one start per behaviour, its config drawn from the  *)
(* configs below                                                           *)

Configs ==
    [keys : SUBSET ConfigKeys,
     mode : {"private", "public", "other"},
     media_root : {Root, Append(Root, <<"a">>), Append(Root, <<"z">>),
                   Append(Root, <<"o">>), Append(Root, <<"c">>)},
     database : {"", "shares.db"}]

\* The process starts: the config is loaded and validated
Startup ==
    /\ last.op = "config"
    /\ last' = [op |-> "startup", config |-> last.config, result |-> startup(last.config)]
    /\ UNCHANGED <<fs, pyLoopRaises, now, shares, issued, worker, revoked_true, created_with>>

InitConfig ==
    /\ fs = MediaTree(Outside)
    /\ pyLoopRaises \in BOOLEAN
    /\ now = 0
    /\ shares = <<>>
    /\ issued = 0
    /\ worker = [w \in Workers |-> Off]
    /\ revoked_true = [t \in TokenArgs |-> 0]
    /\ created_with = [t \in TokenArgs |-> TtlNone]
    /\ \E config \in Configs : last = [op |-> "config", config |-> config]

NextConfig == Startup

SpecConfig == InitConfig /\ [][NextConfig]_vars

----------------------------------------------------------------------------
(* Claims about the share lifecycle *)

\* A ".." between separators or the ends of the string
HasDotDotSegment(raw) ==
    \E i \in 1..(Len(raw) - 1) :
        /\ raw[i] = "." /\ raw[i + 1] = "."
        /\ (i = 1 \/ raw[i - 1] = SEP)
        /\ (i + 1 = Len(raw) \/ raw[i + 2] = SEP)

\* Where the names of `raw` lead from the root, symbolic links followed, as
\* far as they can be followed
Destination(raw) == joinrealpath(<<>>, Root \o path_parts(raw), {})

\* `raw` names a place inside the root
InRoot(raw) == ~HasDotDotSegment(raw) /\ IsPrefix(Root, Destination(raw).path)

\* What is at that place: "file", "dir", or "none" when nothing is there
InRootKind(raw) ==
    IF Destination(raw).exc = "none" /\ Destination(raw).ok
    THEN IF lstat(Destination(raw).path).kind \in {"file", "dir"}
         THEN lstat(Destination(raw).path).kind
         ELSE "none"
    ELSE "none"

RowOf(token) == CHOOSE row \in Rows : row.token = token

InactiveStates == {"absent", "expired", "revoked"}

\* C1: GET /v/<token> for a token with no record in the store answers 404 and
\* never fails with another error outcome.
C1_UnknownTokenNotFound ==
    (last.op = "view_by_token" /\ last.pre = "absent") => last.status = 404

\* C2: GET /v/<token> gives one and the same outcome for a token with no
\* record, an expired token and a revoked token: whatever a view of such a
\* token answered, a view of any other such token answers the same.
C2_InactiveTokensSameOutcome ==
    (last.op = "view_by_token" /\ last.pre \in InactiveStates)
        => \A token \in TokenArgs :
              TokenState(token) \in InactiveStates => view_by_token(token) = last.status

\* C3: revoke(token) returns True exactly when a record with that token exists
\* and its revoked_at is null when the call runs, expired or not, and then sets
\* revoked_at; it returns True at most once per token; a call that returns
\* False (a later call, an unknown token) changes nothing.
C3_RevokeTrueOncePerToken ==
    /\ \A token \in TokenArgs : revoked_true[token] <= 1
    /\ last.op = "revoke"
          => /\ last.ret <=> last.pre \in {"active", "expired"}
             /\ last.ret => RowOf(last.token).revoked_at = sql_datetime(0)
             /\ last.ret <=> last.changed

\* C3 witness: a second revoke of a token returns False after the first one
\* returned True on a record that had already expired.
C3_Witness ==
    /\ last.op = "revoke"
    /\ last.pre = "revoked"
    /\ ~last.ret
    /\ revoked_true[last.token] = 1
    /\ RowOf(last.token).expires_at # NULL
    /\ RowOf(last.token).expires_at.sec <= RowOf(last.token).revoked_at.sec

\* C4: of concurrent revoke calls on one unrevoked token exactly one returns
\* True and makes the one change of revoked_at from null to set; the others
\* return False and change nothing, in every interleaving.
C4_ConcurrentRevokeOneChange ==
    /\ \A token \in TokenArgs :
          /\ revoked_true[token] <= 1
          /\ revoked_true[token] = 1
                <=> \E row \in Rows : row.token = token /\ row.revoked_at # NULL
    /\ last.op = "revoke"
          => /\ last.ret <=> last.changed
             /\ last.pre \in {"active", "expired"} => last.ret
             /\ last.pre = "revoked" => (~last.ret /\ revoked_true[last.token] = 1)

\* C4 witness: a revoke that was called before another revoke of the same
\* token ran returns False, the other one having returned True.
C4_Witness ==
    /\ last.op = "revoke"
    /\ last.raced
    /\ ~last.ret
    /\ last.pre = "revoked"
    /\ revoked_true[last.token] = 1

\* C5: once a token is revoked its record is inactive whatever its expires_at:
\* is_share_active of the fetched record is False, get_active_by_file_path
\* does not return it, and GET /v/<token> answers 404.
C5_RevokedIsInactive ==
    /\ \A row \in Rows :
          row.revoked_at # NULL
             => /\ ~is_share_active(get_by_token(row.token)).val
                /\ row \notin get_active_by_file_path(row.file_path)
                /\ view_by_token(row.token) = 404
    /\ (last.op = "view_by_token" /\ last.pre = "revoked") => last.status = 404
    /\ (last.op = "revoke" /\ last.ret) => RowOf(last.token).revoked_at # NULL

\* C5 witness: a view of a revoked token whose expiry has not come answers 404
C5_Witness ==
    /\ last.op = "view_by_token"
    /\ last.pre = "revoked"
    /\ last.status = 404
    /\ RowOf(last.token).expires_at # NULL
    /\ RowOf(last.token).expires_at.sec > now

\* C6: with share requests one after another, a POST /share for a path that
\* has an active share answers with that share's token and inserts nothing,
\* whatever expiry it asks for; so one path string never has two active shares.
C6_SequentialShareReusesToken ==
    /\ (last.op = "share_post" /\ last.had_active)
          => /\ ~last.inserted
             /\ last.status = 302
             /\ \E row \in ActiveRows(last.path) : row.token = last.token
    /\ \A path \in ClientPaths : Cardinality(ActiveRows(strip(path))) <= 1

\* C6 witness: a POST /share answered with the token of the one share there is
C6_Witness ==
    /\ last.op = "share_post"
    /\ last.had_active
    /\ ~last.inserted
    /\ Len(shares) = 1
    /\ last.token = shares[1].token

\* C7: the dedup check and the insert of a share request are separate store
\* operations: a request that passed the check inserts its row with a token of
\* its own whatever the store holds by then, so two concurrent requests for
\* one path can leave two active records with different tokens.
C7_CheckAndInsertSeparate ==
    /\ \A i, j \in 1..Len(shares) : i # j => shares[i].token # shares[j].token
    /\ \A w \in Workers :
          worker[w].pc = "insert" => \A row \in Rows : row.token # worker[w].token
    /\ (last.op = "share_post" /\ last.inserted)
          => \E row \in Rows :
                /\ row.token = last.token
                /\ row.file_path = last.path
                /\ row.revoked_at = NULL

\* C7 witness: an insert that ran although an active share for the path was
\* there, leaving two active records with different tokens for one file_path.
C7_Witness ==
    /\ last.op = "share_post"
    /\ last.inserted
    /\ last.had_active
    /\ \E r1, r2 \in ActiveRows(last.path) : r1.token # r2.token

\* C11: is_share_active of a record is False when revoked_at is set; else
\* True when expires_at is null, at every clock value; else True exactly when
\* expires_at is later than the clock read by the call, so False at the
\* clock value expires_at itself.  A public view of a record whose file is
\* there answers 200 exactly in these cases.
C11_ActiveIffUnrevokedAndUnexpired ==
    /\ \A row \in Rows :
          is_share_active({row})
             = [exc |-> "none",
                val |-> /\ row.revoked_at = NULL
                        /\ (row.expires_at = NULL \/ row.expires_at.sec > now)]
    /\ (last.op = "view_by_token" /\ last.pre # "absent")
          => (last.status = 200
                <=> /\ RowOf(last.token).revoked_at = NULL
                    /\ \/ RowOf(last.token).expires_at = NULL
                       \/ RowOf(last.token).expires_at.sec > now)

\* C11 witness: a view at the very clock value of the record's expires_at
\* answers 404, while a share made earlier without expiry is still active.
C11_Witness ==
    /\ last.op = "view_by_token"
    /\ last.status = 404
    /\ RowOf(last.token).revoked_at = NULL
    /\ RowOf(last.token).expires_at # NULL
    /\ RowOf(last.token).expires_at.sec = now
    /\ \E row \in Rows :
          /\ row.expires_at = NULL
          /\ row.created_at.sec < now
          /\ is_share_active({row}).val

\* C12: a share created with a ttl of t > 0 seconds is stored with
\* expires_at = created_at + t; it is active right after its creation and
\* inactive at every clock value past created_at + t.
C12_ExpiresAtIsCreatedAtPlusTtl ==
    \A row \in Rows :
        LET t == created_with[row.token]
        IN  (~t.none /\ t.sec > 0)
               => /\ row.expires_at # NULL
                  /\ row.expires_at.sec = row.created_at.sec + t.sec
                  /\ (last.op = "share_post" /\ last.inserted /\ last.token = row.token)
                        => is_share_active({row}).val
                  /\ now > row.created_at.sec + t.sec => ~is_share_active({row}).val

\* C13: get_active_by_file_path(p) returns a record exactly when some record
\* with file_path = p is neither revoked nor expired at the call; the record
\* returned is one of these; a share request whose dedup check finds no
\* record goes on to create one, and one that finds a record reuses an active
\* record of that path.
C13_ActiveByPathIffSomeActive ==
    /\ \A path \in ClientPaths :
          /\ get_active_by_file_path(strip(path)) # {} <=> ActiveRows(strip(path)) # {}
          /\ get_active_by_file_path(strip(path)) \subseteq ActiveRows(strip(path))
    /\ (last.op = "share_post" /\ ~last.inserted /\ last.status = 302)
          => \E row \in ActiveRows(last.path) : row.token = last.token
    /\ last.op = "share_check" => ActiveRows(last.path) = {}

\* C13 witness: the dedup check finds nothing for a path whose only share has
\* expired without being revoked.
C13_Witness ==
    /\ last.op = "share_check"
    /\ Len(shares) = 1
    /\ shares[1].file_path = last.path
    /\ shares[1].revoked_at = NULL
    /\ shares[1].expires_at # NULL
    /\ shares[1].expires_at.sec <= now

\* The place of a token's row in the table
IndexOf(token) == CHOOSE i \in 1..Len(shares) : shares[i].token = token

\* C14: with several active records for one file_path the record
\* get_active_by_file_path returns is the most recently created one: no other
\* active record of the path has a later created_at, or the same created_at
\* and a later insertion.
C14_ReturnsMostRecentlyCreated ==
    (last.op = "share_post" /\ ~last.inserted /\ last.status = 302)
        => \A i \in 1..Len(shares) :
              (shares[i] \in ActiveRows(last.path) /\ shares[i].token # last.token)
                 => \/ shares[i].created_at.sec < RowOf(last.token).created_at.sec
                    \/ /\ shares[i].created_at.sec = RowOf(last.token).created_at.sec
                       /\ i < IndexOf(last.token)

\* A custom value that is not a positive whole number in decimal digits
InvalidOrNonPositive(custom_value) ==
    ~(/\ custom_value # <<>>
      /\ \A i \in 1..Len(custom_value) : custom_value[i] \in Digits
      /\ int(custom_value) > 0)

\* C15: a POST /share with a custom expiry whose value is empty, not a
\* number, negative or zero is not rejected: the share is created, with the
\* configured default ttl.
C15_BadCustomValueGetsDefaultTtl ==
    (/\ last.op = "share_post"
     /\ last.form # NoForm
     /\ last.form.expires = <<"custom">>
     /\ InvalidOrNonPositive(last.form.custom_value))
        => /\ last.status = 302
           /\ last.inserted
           /\ last.ttl = Ttl(SHARE_DEFAULT_EXPIRY_SECONDS)

\* C18: no record returns to active: a record that is_share_active finds
\* inactive (revoked, or expires_at <= now) is found inactive after every
\* step, whichever request or clock tick the step is.
C18_InactiveStaysInactive ==
    [][\A token \in 1..MaxShares :
          (get_by_token(token) # {} /\ ~is_share_active(get_by_token(token)).val)
             => (get_by_token(token) # {} /\ ~is_share_active(get_by_token(token)).val)'
      ]_vars

\* C18 witness: a new share has been created for the path of a record that is
\* inactive, and that record is still inactive.
C18_Witness ==
    /\ last.op = "share_post"
    /\ last.inserted
    /\ \E row \in Rows :
          /\ row.file_path = last.path
          /\ row.token # last.token
          /\ ~is_share_active({row}).val

\* C19: every step keeps every record, with its token, file_path, created_at
\* and expires_at as they are; revoked_at changes only from null to a value,
\* only in a revoke of that token that returns True, and a value once set is
\* never overwritten; a record that is added has revoked_at null.
C19_RecordsOnlyGainRevokedAt ==
    [][/\ Len(shares') >= Len(shares)
       /\ \A i \in 1..Len(shares) :
             /\ shares'[i].token = shares[i].token
             /\ shares'[i].file_path = shares[i].file_path
             /\ shares'[i].created_at = shares[i].created_at
             /\ shares'[i].expires_at = shares[i].expires_at
             /\ shares[i].revoked_at # NULL => shares'[i].revoked_at = shares[i].revoked_at
             /\ shares'[i].revoked_at # shares[i].revoked_at
                   => /\ last'.op = "revoke"
                      /\ last'.token = shares[i].token
                      /\ last'.ret
       /\ \A i \in (Len(shares) + 1)..Len(shares') : shares'[i].revoked_at = NULL
      ]_vars

\* C19 witness: a revoke of a token that was revoked at an earlier clock value
\* has run, and the record holds the earlier revoked_at.
C19_Witness ==
    /\ last.op = "revoke"
    /\ last.pre = "revoked"
    /\ RowOf(last.token).revoked_at.sec < now
    /\ Len(shares) = MaxShares

\* The record's file_path leads to a file inside the root, as the
\* filesystem is now
LeadsToFileInRoot(file_path) ==
    /\ Destination(file_path).exc = "none"
    /\ Destination(file_path).ok
    /\ IsPrefix(Root, Destination(file_path).path)
    /\ lstat(Destination(file_path).path).kind = "file"

\* C20: a public view of an active token resolves the stored file_path
\* against the filesystem as it is at the view: it answers 404 when nothing
\* or a directory is at the path or the path leads outside the root, and 200
\* when the path leads to a file inside the root, whatever an earlier view of
\* the token answered.
C20_ViewResolvesStoredPathAnew ==
    (last.op = "view_by_token" /\ last.pre = "active")
        => LET file_path == RowOf(last.token).file_path
               node == lstat(Root \o path_parts(file_path))
           IN  /\ node.kind \in {"none", "dir"} => last.status = 404
               /\ (node.kind = "link" /\ ~IsPrefix(Root, node.target)) => last.status = 404
               /\ LeadsToFileInRoot(file_path) => last.status = 200
               /\ last.status = 200 => LeadsToFileInRoot(file_path)

\* C20 witness: a token whose view answered 404 is served again, a file
\* having come back at its path in between.
C20_Witness ==
    /\ last.op = "view_by_token"
    /\ last.pre = "active"
    /\ last.after = 404
    /\ last.status = 200
    /\ lstat(SharedFile) = FileNode

\* C21: a GET or POST /share whose path does not resolve to a file under
\* the root ends there: it is answered with an error status, it does not get
\* as far as the store, and the step leaves the records and the tokens drawn
\* as they were.
C21_FailedResolveLeavesStoreAlone ==
    [][(/\ \/ last'.op \in {"share_get", "share_check"}
           \/ last'.op = "share_post" /\ ~last'.inserted
        /\ last'.path # <<>>
        /\ resolve_safe(last'.path, TRUE, FALSE).kind # "path")
          => /\ last'.op # "share_check"
             /\ last'.status \in {403, 500}
             /\ ~last'.touched
             /\ shares' = shares
             /\ issued' = issued
             /\ worker' = worker
      ]_vars

\* C21 witness: a POST /share for a path that has an active share and whose
\* file is gone is answered 403 without a look at the store.
C21_Witness ==
    /\ last.op = "share_post"
    /\ last.status = 403
    /\ last.had_active
    /\ ~last.touched
    /\ lstat(SharedFile) = NoNode

\* C22: dedup goes by the path string as the client wrote it:
\* get_active_by_file_path(p) returns only records stored under p itself, a
\* share request is answered with a token stored under its own path string or
\* creates a record under it, so requests one after another for two spellings
\* of one file each create a record.
C22_DedupByLiteralPath ==
    /\ \A path \in ClientPaths :
          \A row \in get_active_by_file_path(strip(path)) : row.file_path = strip(path)
    /\ (last.op \in {"share_get", "share_post"} /\ last.status = 302)
          => RowOf(last.token).file_path = last.path
    /\ last.op = "share_check"
          => \A row \in Rows : row.file_path = last.path => TokenState(row.token) # "active"

\* C22 witness: with one request at a time, "a" and "./a" each have an
\* active record of their own and both lead to the file root/a.
C22_Witness ==
    /\ last.op = "share_post"
    /\ last.inserted
    /\ \E r1, r2 \in Rows :
          /\ r1.file_path = <<"a">>
          /\ r2.file_path = <<".", SEP, "a">>
          /\ TokenState(r1.token) = "active"
          /\ TokenState(r2.token) = "active"
          /\ Destination(r1.file_path).path = Append(Root, <<"a">>)
          /\ Destination(r2.file_path).path = Append(Root, <<"a">>)

\* C23: a POST /share for a path whose shares are all revoked or expired
\* creates a record: with expiry never or a positive ttl the new record is
\* active and its token is the token of no other record, the other records of
\* the path are inactive and their public views answer 404; and a POST /share
\* is never answered with the token of a revoked or expired record.
C23_NewShareAfterRevokeOrExpiry ==
    /\ (last.op = "share_post" /\ last.inserted /\ (last.ttl.none \/ last.ttl.sec > 0))
          => /\ is_share_active(get_by_token(last.token)).val
             /\ Cardinality({i \in 1..Len(shares) : shares[i].token = last.token}) = 1
             /\ \A row \in Rows :
                   (row.file_path = last.path /\ row.token # last.token)
                      => /\ ~is_share_active({row}).val
                         /\ view_by_token(row.token) = 404
    /\ (last.op = "share_post" /\ ~last.inserted /\ last.status = 302)
          => TokenState(last.token) = "active"

\* C23 witness: a share of a path has been revoked, the next POST /share for
\* the path has created an active record with a new token, and the revoked
\* token's view answers 404.
C23_Witness ==
    /\ last.op = "share_post"
    /\ last.inserted
    /\ Len(shares) = 2
    /\ shares[1].file_path = last.path
    /\ shares[1].revoked_at # NULL
    /\ shares[1].expires_at = NULL
    /\ shares[2].token = last.token
    /\ shares[2].token # shares[1].token
    /\ is_share_active({shares[2]}).val
    /\ view_by_token(shares[1].token) = 404

----------------------------------------------------------------------------
(* Claims about the configuration *)

\* The config sets a store location and no default share ttl
StoreWithoutDefaultTtl(config) ==
    /\ "database" \in config.keys
    /\ config.database # ""
    /\ "share_default_expiry_seconds" \notin config.keys

\* C16 as claimed: start-up fails for every config that sets a store location
\* and no default share ttl, in private mode and in public mode alike.
C16_StoreNeedsDefaultTtlInEveryMode ==
    (last.op = "startup" /\ StoreWithoutDefaultTtl(last.config))
        => last.result.exc # "none"

\* C16 amended: start-up fails for every config of private mode (named, or by
\* default) that sets a store location and no default share ttl; a config of
\* public mode with a store location and a media root that is a directory is
\* accepted without a default share ttl.
C16_StoreNeedsDefaultTtlInPrivateMode ==
    (last.op = "startup" /\ StoreWithoutDefaultTtl(last.config)
        /\ "media_root" \in last.config.keys)
        => /\ config_mode(last.config) = "private" => last.result.exc # "none"
           /\ (config_mode(last.config) = "public" /\ last.config.media_root = Root)
                 => last.result = Accepted(Root, "public")

\* C16 witness: a private config whose only fault is the missing default ttl
\* is rejected with ValueError.
C16_Witness ==
    /\ last.op = "startup"
    /\ last.config.keys = {"media_root", "database"}
    /\ last.config.media_root = Root
    /\ last.config.database = "shares.db"
    /\ last.result = Rejected("ValueError")

----------------------------------------------------------------------------
(* Claims about path resolution *)

\* Walking the names of `raw` down from the root through directories meets a
\* symbolic link whose target is not under the root
ThroughOutsideLink(raw) ==
    LET names == path_parts(raw)
    IN  \E k \in 1..Len(names) :
            /\ \A j \in 1..(k - 1) : lstat(Root \o SubSeq(names, 1, j)).kind = "dir"
            /\ lstat(Root \o SubSeq(names, 1, k)).kind = "link"
            /\ ~IsPrefix(Root, lstat(Root \o SubSeq(names, 1, k)).target)

\* C8: a relative path with a ".." segment anywhere resolves to None whatever
\* the filesystem holds, and the browse and view handlers answer it with 403.
C8_DotDotIsInvalid ==
    (last.op \in {"resolve", "browse", "view"} /\ HasDotDotSegment(last.raw))
        => /\ last.op = "resolve" => last.res = ReturnedNone
           /\ last.op \in {"browse", "view"} => last.status = 403

\* C8 witness: "d/..", which would normalise to the root itself, resolves to None
C8_Witness ==
    /\ last.op = "resolve"
    /\ last.raw = <<"d", SEP, ".", ".">>
    /\ ~last.must_be_file
    /\ last.res = ReturnedNone

\* C9: every path resolve returns is the canonical root or a descendant of
\* it, and a path without a ".." segment that passes through a symbolic link
\* leading outside the root is Invalid (None).
C9_ResolvedStaysUnderRoot ==
    last.op = "resolve"
        => /\ last.res.kind = "path" => IsPrefix(Root, last.res.path)
           /\ (~HasDotDotSegment(last.raw) /\ ThroughOutsideLink(last.raw))
                 => last.res = ReturnedNone

\* C10: resolve never throws; the view and browse handlers answer a path that
\* fails containment with 403 and a path inside the root that is missing or of
\* the wrong type with 404.
C10_NoThrowAndCausesDistinct ==
    LET contained == resolve_under_root(Root, strip(last.raw), FALSE, FALSE)
    IN  /\ last.op = "resolve" => last.res.kind # "raise"
        /\ last.op = "view"
              => /\ contained.kind = "none" => last.status = 403
                 /\ (contained.kind = "path" /\ ~is_file(contained.path))
                       => last.status = 404
        /\ last.op = "browse"
              => /\ contained.kind = "none" => last.status = 403
                 /\ (contained.kind = "path" /\ ~is_file(contained.path)
                        /\ ~is_dir(contained.path))
                       => last.status = 404

\* C17: for a path inside the root, resolve with must_be_file returns None
\* when a directory or nothing is there, with must_be_dir returns None when a
\* file or nothing is there, and with neither flag returns a resolved path
\* when nothing is there.
C17_TypeFlagsDecideInRootPaths ==
    (last.op = "resolve" /\ InRoot(last.raw))
        => /\ (last.must_be_file /\ InRootKind(last.raw) \in {"dir", "none"})
                 => last.res = ReturnedNone
           /\ (last.must_be_dir /\ InRootKind(last.raw) \in {"file", "none"})
                 => last.res = ReturnedNone
           /\ (~last.must_be_file /\ ~last.must_be_dir /\ InRootKind(last.raw) = "none")
                 => last.res.kind = "path"

\* A string without the separators it starts with
RECURSIVE DropLeadingSeps(_)
DropLeadingSeps(s) ==
    IF s # <<>> /\ Head(s) = SEP THEN DropLeadingSeps(Tail(s)) ELSE s

\* What follows the leading separators of `raw`, the blanks around `raw` left out
AfterLeadingSeps(raw) == DropLeadingSeps(strip(raw))

\* What follows the leading separators are plain names, none of them a
\* symbolic link
PlainNames(raw) ==
    LET names == split(AfterLeadingSeps(raw), <<>>)
    IN  \A k \in 1..Len(names) :
            /\ names[k] \notin {<<>>, DOT, DOTDOT}
            /\ ~HasNul(names[k])
            /\ lstat(Root \o SubSeq(names, 1, k)).kind # "link"

\* C24: a client path that starts with the separator is not resolved as an
\* absolute path: it resolves as the relative path "./" followed by what
\* comes after the leading separators does, its names joined onto the root,
\* so "/x/a" resolves to root/x/a and not to the file /x/a.
C24_LeadingSeparatorStaysUnderRoot ==
    (last.op = "resolve" /\ strip(last.raw) # <<>> /\ Head(strip(last.raw)) = SEP)
        => /\ last.res = resolve_under_root(Root, <<".", SEP>> \o AfterLeadingSeps(last.raw),
                                            last.must_be_file, last.must_be_dir)
           /\ last.res.kind = "path" => IsPrefix(Root, last.res.path)
           /\ (PlainNames(last.raw) /\ ~last.must_be_file /\ ~last.must_be_dir)
                 => last.res = Returned(Root \o split(AfterLeadingSeps(last.raw), <<>>))

\* C24 witness: "/x/a", the absolute path of a file outside the root,
\* resolves to root/x/a.
C24_Witness ==
    /\ last.op = "resolve"
    /\ last.raw = <<SEP, "x", SEP, "a">>
    /\ ~last.must_be_file
    /\ ~last.must_be_dir
    /\ lstat(<< <<"x">>, <<"a">> >>).kind = "file"
    /\ last.res = Returned(Root \o << <<"x">>, <<"a">> >>)

====
